---- MODULE Spec2Model ----
(***************************************************************************)
(* The report generator of client/src/Dashboard.jsx (DashboardPage): the   *)
(* React state of the page, the asynchronous generateReport call, the PDF  *)
(* builder generatePDF with its markup scanner parseAndPrintText and its   *)
(* pagination loop, and the two downloads downloadPDF and downloadDOCX.    *)
(*                                                                         *)
(* A text is a sequence of one-character strings.  The jsPDF document is   *)
(* the list of its pages, each the list of the text-drawing calls made on  *)
(* it, together with the current font, font size and text colour.  The     *)
(* docx Document is the list of its paragraphs, each a list of TextRuns.   *)
(***************************************************************************)
EXTENDS Naturals, Integers, Sequences, FiniteSets, TLC

VARIABLES
  company,     \* useState(""): the company name input
  reportType,  \* useState("Annual"): the report type select
  loading,     \* useState(false)
  report,      \* useState(null): the generated report text
  pdf,         \* useState(null): the jsPDF document built from a report text
  calls,       \* the generateReport calls suspended at their await, oldest first
  today,       \* the day new Date() reads
  saved,       \* the file last handed to pdf.save / saveAs
  fin          \* FinancialDashboard: apiKey, ticker, data, error, loading, and
               \* where its fetchFinancialData call is suspended (pc)

vars == <<company, reportType, loading, report, pdf, calls, today, saved, fin>>

(***************************************************************************)
(* Bounds of the model.                                                    *)
(***************************************************************************)
\* longest single line of markup drawn as a response text
MaxLineLen == 5
\* most lines of a response text used to exercise the pagination loop
MaxLines == 68
\* most generateReport calls whose request is outstanding at one time
MaxCalls == 2
\* last day of the clock behind new Date()
MaxDay == 2
\* longest response text of several short lines
MaxTextLen == 5

\* null, and a value that is not null
NULL == <<>>
Some(x) == <<x>>
Val(o) == o[1]

(***************************************************************************)
(* Characters and texts.                                                   *)
(***************************************************************************)
Star == "*"
NL == "\n"
\* the characters the regular expression's . does not match
LineTerminators == {"\n", "\r"}
\* the characters of a line of the model: the delimiter and two others
Alphabet == {"*", "a", "b"}

RECURSIVE Concat(_)
\* the concatenation of a sequence of sequences
Concat(ss) == IF ss = <<>> THEN <<>> ELSE Head(ss) \o Concat(Tail(ss))

NotStar(c) == c # Star

\* String.prototype.replace(/\*/g, ""): every delimiter removed
StripStars(s) == SelectSeq(s, NotStar)

\* String.prototype.startsWith("*") and endsWith("*")
StartsWithStar(s) == s # <<>> /\ Head(s) = Star
EndsWithStar(s) == s # <<>> /\ s[Len(s)] = Star

\* String.prototype.split(sep) for a one-character separator: the pieces
\* between the separators, empty pieces kept; the empty text gives one
\* empty piece
SplitOn(s, sep) ==
  LET at == {i \in 1..Len(s) : s[i] = sep}
      \* the position of the k-th separator; 0 and Len(s) + 1 bound the text
      sepPos(k) == IF k = 0 THEN 0
                   ELSE IF k > Cardinality(at) THEN Len(s) + 1
                   ELSE CHOOSE i \in at : Cardinality({m \in at : m < i}) = k - 1
  IN [k \in 1..(Cardinality(at) + 1) |-> SubSeq(s, sepPos(k - 1) + 1, sepPos(k) - 1)]

\* the positions i >= pos of s where /\*.*?\*/ matches: a delimiter, then
\* the nearest later delimiter, with no line terminator between them
MatchStarts(s, pos) ==
  {i \in pos..Len(s) :
     /\ s[i] = Star
     /\ \E j \in (i + 1)..Len(s) :
          /\ s[j] = Star
          /\ \A k \in (i + 1)..(j - 1) : s[k] # Star /\ s[k] \notin LineTerminators}

\* the end of the lazy match that starts at i
MatchEnd(s, i) == CHOOSE j \in (i + 1)..Len(s) :
                    s[j] = Star /\ \A k \in (i + 1)..(j - 1) : s[k] # Star

RECURSIVE SplitFrom(_, _)
SplitFrom(s, pos) ==
  LET ms == MatchStarts(s, pos)
  IN IF ms = {} THEN <<SubSeq(s, pos, Len(s))>>
     ELSE LET i == CHOOSE k \in ms : \A m \in ms : k <= m
              j == MatchEnd(s, i)
          IN <<SubSeq(s, pos, i - 1), SubSeq(s, i, j)>> \o SplitFrom(s, j + 1)

\* text.split(/(\*.*?\*)/): the pieces between the matches alternating with
\* the captured matches, empty pieces kept
RegexSplit(s) == SplitFrom(s, 1)

(***************************************************************************)
(* The jsPDF document: its pages, each the sequence of text-drawing calls  *)
(* made on it, and the current font style, font size and text colour.  A   *)
(* drawing call records the text, its position and the style it was drawn  *)
(* with; src is the place of generatePDF that made the call: "title",      *)
(* "company", "type", "date" for the four header calls on the first page,  *)
(* "pagetitle" for the call after addPage, and "line" for a piece of a     *)
(* line of the report, whose number (from 1; 0 otherwise) is in line.      *)
(***************************************************************************)
\* doc.internal.pageSize.height of new jsPDF({unit: "mm", format: "a4"})
PageHeight == 297
\* let y = 80: the position of the first line on the first page
FirstY == 80
\* y = 20 after doc.addPage()
NextPageY == 20
\* y > pageHeight - 20
BottomMargin == 20
\* y += 7
LineHeight == 7
\* parseAndPrintText(line, 20, y) and doc.text(..., 20, ...)
LeftX == 20
\* startX += doc.getTextWidth(word) + 2
WordGap == 2
\* the advance of one character under each font style (Helvetica and
\* Helvetica-Bold have different metric tables)
NormalCharWidth == 3
BoldCharWidth == 4

\* new jsPDF(...): one empty page, the default font, size and colour
NewDoc == [pages |-> << <<>> >>, font |-> "normal", size |-> 16, color |-> "black"]

SetFont(doc, f) == [doc EXCEPT !.font = f]
SetFontSize(doc, n) == [doc EXCEPT !.size = n]
SetTextColor(doc, c) == [doc EXCEPT !.color = c]

\* doc.text(text, x, y): drawn on the current (last) page in the current style
DrawText(doc, text, x, y, src, line) ==
  [doc EXCEPT !.pages[Len(doc.pages)] =
     Append(@, [text |-> text, x |-> x, y |-> y, font |-> doc.font,
                size |-> doc.size, color |-> doc.color, src |-> src,
                line |-> line])]

\* doc.addPage(): a new current page; the style is kept
AddPage(doc) == [doc EXCEPT !.pages = Append(@, <<>>)]

\* doc.getTextWidth(word) under the current font
GetTextWidth(doc, word) ==
  Len(word) * (IF doc.font = "bold" THEN BoldCharWidth ELSE NormalCharWidth)

\* PrintWord with the font left normal for a delimited span
PrintWordPlain(st, word, startY, line) ==
  LET isBold == StartsWithStar(word) /\ EndsWithStar(word)
      d1 == SetFont(st.doc, "normal")
      w == IF isBold THEN StripStars(word) ELSE word
  IN [doc |-> DrawText(d1, w, st.x, startY, "line", line),
      x |-> st.x + GetTextWidth(d1, w) + WordGap]

\* PrintWord with the width measured in the font of the piece before
PrintWordStaleMetric(st, word, startY, line) ==
  LET isBold == StartsWithStar(word) /\ EndsWithStar(word)
      d1 == SetFont(st.doc, IF isBold THEN "bold" ELSE "normal")
      w == IF isBold THEN StripStars(word) ELSE word
  IN [doc |-> DrawText(d1, w, st.x, startY, "line", line),
      x |-> st.x + GetTextWidth(st.doc, w) + WordGap]

\* the body of words.forEach in parseAndPrintText: one piece of the split
\* is drawn; st is [doc, x]
PrintWord(st, word, startY, line) ==
  LET isBold == StartsWithStar(word) /\ EndsWithStar(word)
      d1 == SetFont(st.doc, IF isBold THEN "bold" ELSE "normal")
      w == IF isBold THEN StripStars(word) ELSE word
  IN [doc |-> DrawText(d1, w, st.x, startY, "line", line),
      x |-> st.x + GetTextWidth(d1, w) + WordGap]

RECURSIVE PrintWords(_, _, _, _)
PrintWords(st, words, startY, line) ==
  IF words = <<>> THEN st
  ELSE PrintWords(PrintWord(st, Head(words), startY, line), Tail(words), startY, line)

\* parseAndPrintText(text, startX, startY): the document after the call
ParseAndPrintText(doc, text, startX, startY, line) ==
  PrintWords([doc |-> doc, x |-> startX], RegexSplit(text), startY, line).doc

\* PageBreak with the title of the new page forgotten
PageBreakNoTitle(st) ==
  IF st.y > PageHeight - BottomMargin
    THEN [doc |-> AddPage(st.doc), y |-> NextPageY]
    ELSE st

\* PageBreak with room for one more line height asked for
PageBreakEarly(st) ==
  IF st.y + LineHeight > PageHeight - BottomMargin
    THEN [doc |-> DrawText(AddPage(st.doc), <<"FINANCIAL REPORT">>, LeftX, 20, "pagetitle", 0),
          y |-> NextPageY]
    ELSE st

\* the page break of the lines.forEach body: st is [doc, y]
PageBreak(st) ==
  IF st.y > PageHeight - BottomMargin
    THEN [doc |-> DrawText(AddPage(st.doc), <<"FINANCIAL REPORT">>, LeftX, 20, "pagetitle", 0),
          y |-> NextPageY]
    ELSE st

\* PrintLine with the line that meets the page break skipped
PrintLineSkip(st, line, i) ==
  LET s1 == PageBreak(st)
  IN IF st.y > PageHeight - BottomMargin
       THEN s1
       ELSE [doc |-> ParseAndPrintText(s1.doc, line, LeftX, s1.y, i),
             y |-> s1.y + LineHeight]

\* PrintLine with a second page break made after the line is drawn
PrintLineBreakAfter(st, line, i) ==
  LET s1 == PageBreak(st)
  IN PageBreak([doc |-> ParseAndPrintText(s1.doc, line, LeftX, s1.y, i),
                y |-> s1.y + LineHeight])

\* PrintLine with the cursor left where it was
PrintLineNoAdvance(st, line, i) ==
  LET s1 == PageBreak(st)
  IN [doc |-> ParseAndPrintText(s1.doc, line, LeftX, s1.y, i),
      y |-> s1.y]

\* the body of lines.forEach for the i-th line
PrintLine(st, line, i) ==
  LET s1 == PageBreak(st)
  IN [doc |-> ParseAndPrintText(s1.doc, line, LeftX, s1.y, i),
      y |-> s1.y + LineHeight]

RECURSIVE PrintLines(_, _, _, _)
\* lines.forEach over the lines lo..hi in order, from the state st.  The
\* range is halved, and the state after the first half is computed before
\* the second half is entered (the test on left only makes TLC evaluate it
\* there, which keeps its evaluation stack shallow)
PrintLines(st, lines, lo, hi) ==
  IF lo > hi THEN st
  ELSE IF lo = hi THEN PrintLine(st, lines[lo], lo)
  ELSE LET mid == (lo + hi) \div 2
           left == PrintLines(st, lines, lo, mid)
       IN IF left.y = left.y THEN PrintLines(left, lines, mid + 1, hi) ELSE left

\* new Date().toLocaleDateString() on day d
LocaleDateString(d) == ToString(d)

\* the header block drawn on the first page
DrawHeader(doc, co, rt, day) ==
  LET d1 == DrawText(SetTextColor(SetFontSize(SetFont(doc, "bold"), 26), "blue"),
                     <<"FINANCIAL REPORT">>, LeftX, 20, "title", 0)
      d2 == DrawText(SetTextColor(SetFontSize(d1, 18), "black"),
                     <<"Company: ", co>>, LeftX, 40, "company", 0)
      d3 == DrawText(d2, <<"Report Type: ", rt>>, LeftX, 50, "type", 0)
  IN DrawText(d3, <<"Generated on: ", LocaleDateString(day)>>, LeftX, 60, "date", 0)

\* generatePDF(reportContent), in a render whose company and reportType are
\* co and rt, on day day
GeneratePDF(reportContent, co, rt, day) ==
  LET lines == SplitOn(reportContent, NL)
  IN PrintLines([doc |-> DrawHeader(NewDoc, co, rt, day), y |-> FirstY],
                lines, 1, Len(lines)).doc

(***************************************************************************)
(* The docx Document built by downloadDOCX: its paragraphs in order, each  *)
(* the sequence of its TextRuns.  The first four are the metadata block.   *)
(* A TextRun given no size has size 0 here.                                *)
(***************************************************************************)
TextRun(text, bold, size) == [text |-> text, bold |-> bold, size |-> size]
Paragraph(children) == [children |-> children]

\* the paragraph of one line of the report
LineParagraph(line) ==
  Paragraph(<<TextRun(StripStars(line), StartsWithStar(line), 0)>>)

\* MetaParagraphs with the date run not bold
MetaParagraphsPlainDate(co, rt, day) ==
  << Paragraph(<<TextRun(<<"FINANCIAL REPORT">>, TRUE, 32)>>),
     Paragraph(<<TextRun(<<"Company: ", co>>, TRUE, 0)>>),
     Paragraph(<<TextRun(<<"Report Type: ", rt>>, TRUE, 0)>>),
     Paragraph(<<TextRun(<<"Generated on: ", LocaleDateString(day)>>, FALSE, 0)>> ) >>

\* the metadata block of downloadDOCX
MetaParagraphs(co, rt, day) ==
  << Paragraph(<<TextRun(<<"FINANCIAL REPORT">>, TRUE, 32)>>),
     Paragraph(<<TextRun(<<"Company: ", co>>, TRUE, 0)>>),
     Paragraph(<<TextRun(<<"Report Type: ", rt>>, TRUE, 0)>>),
     Paragraph(<<TextRun(<<"Generated on: ", LocaleDateString(day)>>, TRUE, 0)>> ) >>

\* BuildDocx with the blank lines of the report left out
BuildDocxNoBlank(rep, co, rt, day) ==
  LET NotBlank(l) == l # <<>>
      lines == SelectSeq(SplitOn(rep, NL), NotBlank)
  IN [paragraphs |-> MetaParagraphs(co, rt, day)
                       \o [i \in 1..Len(lines) |-> LineParagraph(lines[i])]]

\* new Document({sections: [{children: [...]}]}) of downloadDOCX
BuildDocx(rep, co, rt, day) ==
  LET lines == SplitOn(rep, NL)
  IN [paragraphs |-> MetaParagraphs(co, rt, day)
                       \o [i \in 1..Len(lines) |-> LineParagraph(lines[i])]]

(***************************************************************************)
(* The inputs: what the user can type and select, and the texts the        *)
(* generative service can answer with.                                     *)
(***************************************************************************)
Companies == {"", "Acme", "Zen"}
ReportTypes == {"Quarterly", "Annual"}

\* every single line of at most MaxLineLen characters
LineTexts == UNION {[1..n -> Alphabet] : n \in 0..MaxLineLen}

\* the text of n lines, each equal to line
RepeatLines(line, n) ==
  LET w == Len(line) + 1
  IN [p \in 1..(n * w - 1) |-> IF p % w = 0 THEN NL ELSE line[p % w]]

\* texts of 1..MaxLines lines, blank lines or section titles
PageTexts == {RepeatLines(l, n) : l \in {<<>>, <<"*", "a", "*">>}, n \in 1..MaxLines}

\* the answers of the page as a whole: the empty text, an unterminated
\* bold span, and two lines with a title
ReportTexts == {<<>>, <<"*", "a">>, <<"a", NL, "*", "b", "*">>}

\* every text of at most MaxTextLen characters, line breaks among them
ShortTexts == UNION {[1..n -> Alphabet \cup {NL}] : n \in 0..MaxTextLen}

(***************************************************************************)
(* FinancialDashboard: the API key and ticker inputs, the Fetch Data       *)
(* button and fetchFinancialData.  Of the data only months and stockPrice  *)
(* are kept, and of the three JSON bodies only priceData (its t already    *)
(* turned into month names).                                               *)
(***************************************************************************)
ApiKeys == {"", "key"}
Tickers == {"AAPL", "MSFT"}

\* getFallbackData()
GetFallbackData ==
  [months |-> <<"Jan", "Feb", "Mar", "Apr", "May", "Jun">>,
   stockPrice |-> <<150, 155, 160, 158, 162, 165>>]

\* the bodies priceResponse.json() can resolve to: null, or an object with
\* or without t and c
PriceBodies ==
  {NULL} \cup {Some([t |-> t, c |-> c]) :
                 t \in {NULL, Some(<<"Jul">>)}, c \in {NULL, Some(<<170>>)}}

\* the messages of the errors a rejected fetch or json() carries
RejectMessages == {<<"Failed to fetch">>}

\* the state after construction
FinInit ==
  [apiKey |-> "", ticker |-> "AAPL", data |-> NULL, error |-> NULL,
   loading |-> FALSE, pc |-> "idle"]

\* onChange of the API key input
SetApiKey ==
  /\ \E k \in ApiKeys : k # fin.apiKey /\ fin' = [fin EXCEPT !.apiKey = k]
  /\ UNCHANGED <<company, reportType, loading, report, pdf, calls, today, saved>>

\* onChange of the ticker input
SetTicker ==
  /\ \E t \in Tickers : t # fin.ticker /\ fin' = [fin EXCEPT !.ticker = t]
  /\ UNCHANGED <<company, reportType, loading, report, pdf, calls, today, saved>>

\* FetchCatch with the fallback data forgotten
FetchCatchKeepData(f, message) ==
  [f EXCEPT !.error = Some(message), !.loading = FALSE, !.pc = "idle"]

\* the catch and the finally block of fetchFinancialData
FetchCatch(f, message) ==
  [f EXCEPT !.error = Some(message), !.data = Some(GetFallbackData),
            !.loading = FALSE, !.pc = "idle"]

\* onClick of Fetch Data (disabled while loading): fetchFinancialData up to
\* its first await
ClickFetch ==
  /\ ~fin.loading
  /\ IF fin.apiKey = ""
       THEN fin' = [fin EXCEPT !.error = Some(<<"Please enter your Finnhub API key">>)]
       ELSE fin' = [fin EXCEPT !.loading = TRUE, !.error = NULL, !.pc = "profile"]
  /\ UNCHANGED <<company, reportType, loading, report, pdf, calls, today, saved>>

\* the fetch of profile2 settles: rejected, not ok (401 or another status),
\* or ok, and then the three fetches are started
ProfileSettles ==
  /\ fin.pc = "profile"
  /\ \/ \E m \in RejectMessages : fin' = FetchCatch(fin, m)
     \/ fin' = FetchCatch(fin, <<"Invalid API key. Please check your Finnhub API key.">>)
     \/ fin' = FetchCatch(fin, <<"API Error: ", ToString(500)>>)
     \/ fin' = [fin EXCEPT !.pc = "batch"]
  /\ UNCHANGED <<company, reportType, loading, report, pdf, calls, today, saved>>

\* Promise.all of the three fetches settles: rejected, one of them not ok,
\* or all ok, and then the three json() calls are started
BatchSettles ==
  /\ fin.pc = "batch"
  /\ \/ \E m \in RejectMessages : fin' = FetchCatch(fin, m)
     \/ fin' = FetchCatch(fin, <<"Failed to fetch some financial data">>)
     \/ fin' = [fin EXCEPT !.pc = "json"]
  /\ UNCHANGED <<company, reportType, loading, report, pdf, calls, today, saved>>

\* processedData of a priceData object
ProcessedData(body) ==
  [months |-> IF body.t # NULL THEN Val(body.t) ELSE GetFallbackData.months,
   stockPrice |-> IF body.c # NULL THEN Val(body.c) ELSE GetFallbackData.stockPrice]

\* Promise.all of the three json() calls settles: rejected, or resolved;
\* reading priceData.t of null throws, otherwise setData(processedData) and
\* the finally block
JsonSettles ==
  /\ fin.pc = "json"
  /\ \/ \E m \in RejectMessages : fin' = FetchCatch(fin, m)
     \/ \E b \in PriceBodies :
          IF b = NULL
            THEN fin' = FetchCatch(fin, <<"Cannot read properties of null">>)
            ELSE fin' = [fin EXCEPT !.data = Some(ProcessedData(Val(b))),
                                    !.loading = FALSE, !.pc = "idle"]
  /\ UNCHANGED <<company, reportType, loading, report, pdf, calls, today, saved>>

NextFetch ==
  \/ SetApiKey
  \/ SetTicker
  \/ ClickFetch
  \/ ProfileSettles
  \/ BatchSettles
  \/ JsonSettles

(***************************************************************************)
(* DashboardPage.                                                          *)
(***************************************************************************)
Init ==
  /\ company = ""
  /\ reportType = "Annual"
  /\ loading = FALSE
  /\ report = NULL
  /\ pdf = NULL
  /\ calls = <<>>
  /\ today = 1
  /\ saved = NULL
  /\ fin = FinInit

RemoveAt(s, i) == SubSeq(s, 1, i - 1) \o SubSeq(s, i + 1, Len(s))

\* onChange of the company input: setCompany(e.target.value)
EditCompany(S) ==
  /\ \E c \in S : c # company /\ company' = c
  /\ UNCHANGED <<reportType, loading, report, pdf, calls, today, saved, fin>>

\* onChange of the report type select: setReportType(e.target.value)
ChangeReportType ==
  /\ \E t \in ReportTypes : t # reportType /\ reportType' = t
  /\ UNCHANGED <<company, loading, report, pdf, calls, today, saved, fin>>

\* onClick of the Generate button (disabled while loading):
\* generateReport() up to its await, then setLoading(true)
ClickGenerate ==
  /\ ~loading
  /\ \/ /\ company = ""
        /\ loading' = TRUE
        /\ UNCHANGED <<report, pdf, calls>>
     \/ /\ company # ""
        /\ Len(calls) < MaxCalls
        /\ loading' = TRUE
        /\ report' = NULL
        /\ pdf' = NULL
        /\ calls' = Append(calls, [company |-> company, reportType |-> reportType])
  /\ UNCHANGED <<company, reportType, today, saved, fin>>

\* a suspended generateReport resumes with the text result: setReport,
\* generatePDF, setPdf, and the finally block
Respond(S) ==
  \E i \in 1..Len(calls), result \in S :
    /\ report' = Some(result)
    /\ pdf' = Some(GeneratePDF(result, calls[i].company, calls[i].reportType, today))
    /\ loading' = FALSE
    /\ calls' = RemoveAt(calls, i)
    /\ UNCHANGED <<company, reportType, today, saved, fin>>

\* the same, with a jsPDF call inside generatePDF throwing: setReport is
\* done, setPdf is not, then the catch and the finally block
RespondPdfThrows(S) ==
  \E i \in 1..Len(calls), result \in S :
    /\ report' = Some(result)
    /\ loading' = FALSE
    /\ calls' = RemoveAt(calls, i)
    /\ UNCHANGED <<company, reportType, pdf, today, saved, fin>>

\* the request of a suspended generateReport is rejected: the catch and the
\* finally block
Fail ==
  \E i \in 1..Len(calls) :
    /\ loading' = FALSE
    /\ calls' = RemoveAt(calls, i)
    /\ UNCHANGED <<company, reportType, report, pdf, today, saved, fin>>

\* onClick of the X button, rendered while loading
CancelLoading ==
  /\ loading
  /\ loading' = FALSE
  /\ UNCHANGED <<company, reportType, report, pdf, calls, today, saved, fin>>

\* {report && (...)}: the two download buttons are rendered
DownloadsShown == report # NULL /\ Val(report) # <<>>

\* onClick of Download PDF
DownloadPDF ==
  /\ DownloadsShown
  /\ IF pdf # NULL
       THEN saved' = Some([kind |-> "pdf",
                           name |-> <<company, "-financial-report.pdf">>,
                           doc |-> Val(pdf)])
       ELSE UNCHANGED saved
  /\ UNCHANGED <<company, reportType, loading, report, pdf, calls, today, fin>>

\* onClick of Download DOCX
DownloadDOCX ==
  /\ DownloadsShown
  /\ saved' = Some([kind |-> "docx",
                    name |-> <<company, "-financial-report.docx">>,
                    doc |-> BuildDocx(Val(report), company, reportType, today)])
  /\ UNCHANGED <<company, reportType, loading, report, pdf, calls, today, fin>>

\* midnight passes
Tick ==
  /\ today < MaxDay
  /\ today' = today + 1
  /\ UNCHANGED <<company, reportType, loading, report, pdf, calls, saved, fin>>

Next ==
  \/ EditCompany(Companies)
  \/ ChangeReportType
  \/ ClickGenerate
  \/ Respond(ReportTexts)
  \/ RespondPdfThrows(ReportTexts)
  \/ Fail
  \/ CancelLoading
  \/ DownloadPDF
  \/ DownloadDOCX
  \/ Tick

Spec == Init /\ [][Next]_vars

\* the page with a company typed and Generate clicked: one generateReport
\* call is suspended at its await
InitPending ==
  /\ company \in Companies \ {""}
  /\ reportType = "Annual"
  /\ loading = TRUE
  /\ report = NULL
  /\ pdf = NULL
  /\ calls = <<[company |-> company, reportType |-> reportType]>>
  /\ today = 1
  /\ saved = NULL
  /\ fin = FinInit

\* the pending call answered with a single line of markup, then the downloads
NextParse ==
  \/ Respond(LineTexts)
  \/ DownloadPDF
  \/ DownloadDOCX

SpecParse == InitPending /\ [][NextParse]_vars

\* the pending call answered with a text of many lines, then the downloads
NextPage ==
  \/ Respond(PageTexts)
  \/ DownloadPDF
  \/ DownloadDOCX

SpecPage == InitPending /\ [][NextPage]_vars

\* the pending call answered with a short text of several lines, then the
\* downloads
NextText ==
  \/ Respond(ShortTexts)
  \/ DownloadPDF
  \/ DownloadDOCX

SpecText == InitPending /\ [][NextText]_vars

\* the two components side by side, only FinancialDashboard acting
SpecFetch == Init /\ [][NextFetch]_vars

(***************************************************************************)
(* What the claims observe of a state.                                     *)
(***************************************************************************)
\* the lines of the report held
ReportLines == SplitOn(Val(report), NL)

IsHeaderCall(c) == c.src # "line"
IsLineCall(c) == c.src = "line"

\* the drawing calls of line i on page p, in drawing order
LineCallsOn(doc, p, i) ==
  LET OfLine(c) == c.src = "line" /\ c.line = i
  IN SelectSeq(doc.pages[p], OfLine)

\* the drawing calls of line i, over all pages in order
LineCalls(doc, i) ==
  Concat([p \in 1..Len(doc.pages) |-> LineCallsOn(doc, p, i)])

\* the pages that hold a drawing call of line i
PagesOfLine(doc, i) == {p \in 1..Len(doc.pages) : LineCallsOn(doc, p, i) # <<>>}

\* the lines with a drawing call on page p
LinesOnPage(doc, p) ==
  {doc.pages[p][k].line : k \in {k \in 1..Len(doc.pages[p]) : IsLineCall(doc.pages[p][k])}}

\* the characters other than the delimiter of a sequence of runs, each with
\* the bold flag it is shown with
StyledChars(texts, bolds) ==
  Concat([k \in 1..Len(texts) |->
            [m \in 1..Len(StripStars(texts[k])) |->
               [ch |-> StripStars(texts[k])[m], bold |-> bolds[k]]]])

PdfStyledChars(doc, i) ==
  LET cs == LineCalls(doc, i)
  IN StyledChars([k \in 1..Len(cs) |-> cs[k].text],
                 [k \in 1..Len(cs) |-> cs[k].font = "bold"])

\* the paragraph of line i in a docx Document: the metadata block comes first
DocxLineRuns(d, i) == d.paragraphs[4 + i].children

DocxStyledChars(d, i) ==
  LET rs == DocxLineRuns(d, i)
  IN StyledChars([k \in 1..Len(rs) |-> rs[k].text],
                 [k \in 1..Len(rs) |-> rs[k].bold])

\* the texts of the runs of line i, concatenated in order
PdfLineText(doc, i) ==
  LET cs == LineCalls(doc, i) IN Concat([k \in 1..Len(cs) |-> cs[k].text])
DocxLineText(d, i) ==
  LET rs == DocxLineRuns(d, i) IN Concat([k \in 1..Len(rs) |-> rs[k].text])

SavedDocx == saved # NULL /\ Val(saved).kind = "docx"
SavedPdf == saved # NULL /\ Val(saved).kind = "pdf"

NumStars(line) == Len(line) - Len(StripStars(line))

(***************************************************************************)
(* The claims.                                                             *)
(***************************************************************************)

\* C1: for every line of the report, the PDF and the DOCX give every
\* character of the line the same bold flag: the characters drawn for the
\* line by parseAndPrintText, each with the font it is drawn in, are the
\* characters of the line's DOCX paragraph, each with its run's bold flag.
C1_SameBoldness ==
  (pdf # NULL /\ SavedDocx) =>
     \A i \in 1..Len(ReportLines) :
        PdfStyledChars(Val(pdf), i) = DocxStyledChars(Val(saved).doc, i)

\* C2: content preservation: for every line of the report, the texts of the
\* runs drawn for it in the PDF, concatenated in order, are the line with
\* every delimiter removed, and so are the texts of the runs of its DOCX
\* paragraph.
C2_ContentPreserved ==
  /\ pdf # NULL =>
       \A i \in 1..Len(ReportLines) :
          PdfLineText(Val(pdf), i) = StripStars(ReportLines[i])
  /\ SavedDocx =>
       \A i \in 1..Len(ReportLines) :
          DocxLineText(Val(saved).doc, i) = StripStars(ReportLines[i])

RECURSIVE SumLinesOnPages(_, _)
\* the number of lines on the pages 1..p
SumLinesOnPages(doc, p) ==
  IF p = 0 THEN 0 ELSE Cardinality(LinesOnPage(doc, p)) + SumLinesOnPages(doc, p - 1)

\* C3: round-trip line count: every line of the report text is placed on
\* exactly one page (none dropped, none split over two pages), each of its
\* pieces is drawn once (none duplicated), no other line is drawn, and the
\* numbers of lines on the pages add up to the number of lines of the text.
C3_LineCount ==
  pdf # NULL =>
    LET doc == Val(pdf)
    IN /\ \A i \in 1..Len(ReportLines) :
            /\ Cardinality(PagesOfLine(doc, i)) = 1
            /\ Len(LineCalls(doc, i)) = Len(RegexSplit(ReportLines[i]))
       /\ \A p \in 1..Len(doc.pages) : LinesOnPage(doc, p) \subseteq 1..Len(ReportLines)
       /\ SumLinesOnPages(doc, Len(doc.pages)) = Len(ReportLines)

\* C3 witness: a report whose lines went over three pages
C3_Witness ==
  pdf # NULL /\ Len(Val(pdf).pages) = 3 /\ LinesOnPage(Val(pdf), 3) # {}

\* the header texts a PDF draws on its first page, and the metadata texts
\* of a docx Document
HeaderCalls(doc, p) == SelectSeq(doc.pages[p], IsHeaderCall)
HeaderTexts(doc, p) ==
  LET hs == HeaderCalls(doc, p) IN [k \in 1..Len(hs) |-> hs[k].text]
DocxMetaTexts(d) == [k \in 1..4 |-> d.paragraphs[k].children[1].text]

\* C4: cross-format metadata consistency: whenever downloadDOCX produces a
\* document while a PDF is held for the report, the metadata texts of the
\* document (title, company, report type, generation date) are the header
\* texts drawn in that PDF.
C4_MetadataConsistent ==
  [][(saved' # saved /\ saved' # NULL /\ Val(saved').kind = "docx" /\ pdf # NULL)
       => DocxMetaTexts(Val(saved').doc) = HeaderTexts(Val(pdf), 1)]_vars

FirstLineY(doc, p) ==
  LET ls == SelectSeq(doc.pages[p], IsLineCall) IN ls[1].y

\* C6: header space is reserved on every page: the first line of every page
\* is at the y of the first line of page 0 (FirstY), and on no page is a
\* line drawn at the y of a header drawing call of that page.
C6_HeaderSpaceReserved ==
  pdf # NULL =>
    LET doc == Val(pdf)
    IN \A p \in 1..Len(doc.pages) :
         /\ LinesOnPage(doc, p) # {} => FirstLineY(doc, p) = FirstY
         /\ \A k, m \in 1..Len(doc.pages[p]) :
              (IsHeaderCall(doc.pages[p][k]) /\ IsLineCall(doc.pages[p][m]))
                 => doc.pages[p][k].y # doc.pages[p][m].y

\* the last piece of a line cut at its delimiters: the unterminated span of
\* a line with an odd number of delimiters
LastSegment(line) == LET segs == SplitOn(line, Star) IN segs[Len(segs)]

\* the drawing calls of line i with a text that is not empty, as runs
NonEmptyRuns(doc, i) ==
  LET NonEmpty(c) == c.text # <<>>
      cs == SelectSeq(LineCalls(doc, i), NonEmpty)
  IN [k \in 1..Len(cs) |-> [text |-> cs[k].text, bold |-> cs[k].font = "bold"]]

\* C7: malformed markup: a line with an odd number of delimiters is drawn
\* with no text dropped and no delimiter shown, its unterminated span (the
\* text after the last delimiter) in bold to the end of the line; and a line
\* that is one delimiter followed by text (such as '*Revenue Up') is drawn
\* as a single bold run with that text.
C7_UnterminatedSpanBold ==
  pdf # NULL =>
    \A i \in 1..Len(ReportLines) :
       LET line == ReportLines[i]
           sc == PdfStyledChars(Val(pdf), i)
       IN NumStars(line) % 2 = 1 =>
            /\ PdfLineText(Val(pdf), i) = StripStars(line)
            /\ \A m \in (Len(sc) - Len(LastSegment(line)) + 1)..Len(sc) : sc[m].bold
            /\ (Len(line) >= 2 /\ Head(line) = Star /\ NumStars(line) = 1)
                 => NonEmptyRuns(Val(pdf), i) = <<[text |-> Tail(line), bold |-> TRUE]>>

HasStar(text) == \E m \in 1..Len(text) : text[m] = Star

\* C8: no run text contains the delimiter: none of the texts drawn for the
\* lines of the report in the PDF, and none of the run texts of the DOCX
\* paragraphs of the lines, contains '*'.
C8_NoDelimiterInRuns ==
  /\ pdf # NULL =>
       \A i \in 1..Len(ReportLines) :
          \A k \in 1..Len(LineCalls(Val(pdf), i)) : ~HasStar(LineCalls(Val(pdf), i)[k].text)
  /\ SavedDocx =>
       \A i \in 1..Len(ReportLines) :
          \A k \in 1..Len(DocxLineRuns(Val(saved).doc, i)) :
             ~HasStar(DocxLineRuns(Val(saved).doc, i)[k].text)

\* C9: strict alternation: the runs drawn for a line are its segments
\* between successive delimiters, in order, the k-th segment (k from 0) bold
\* exactly when k is odd.
C9_StrictAlternation ==
  pdf # NULL =>
    \A i \in 1..Len(ReportLines) :
       LET segs == SplitOn(ReportLines[i], Star)
           cs == LineCalls(Val(pdf), i)
       IN /\ Len(cs) = Len(segs)
          /\ \A k \in 1..Len(cs) :
               /\ cs[k].text = segs[k]
               /\ (cs[k].font = "bold") <=> ((k - 1) % 2 = 1)

\* the PDF held is one generatePDF builds from the report held
PdfBuiltFromReport ==
  \E co \in Companies, rt \in ReportTypes, d \in 1..MaxDay :
     Val(pdf) = GeneratePDF(Val(report), co, rt, d)

\* C10: the two exports fail atomically and share one source: whenever the
\* DOCX export is available (the download buttons are shown) the PDF export
\* is available too, built from the same report text.
C10_AtomicExports ==
  DownloadsShown => (pdf # NULL /\ PdfBuiltFromReport)

\* C11: overlapping generateReport calls do not interfere: the report and
\* the PDF held when a call completes are an outcome that call has when it
\* runs alone: nothing after a rejected request, the report without a PDF
\* after a generatePDF that throws, or the report with the PDF built from it
\* for the call's own company and report type.
C11_CallsIsolated ==
  [][Len(calls') < Len(calls) =>
       \E i \in 1..Len(calls) :
          /\ calls' = RemoveAt(calls, i)
          /\ \/ report' = NULL /\ pdf' = NULL
             \/ report' # NULL /\ pdf' = NULL
             \/ /\ report' # NULL
                /\ pdf' = Some(GeneratePDF(Val(report'), calls[i].company,
                                           calls[i].reportType, today))]_vars

\* the drawing calls of the lines on page p, in drawing order
PageLineCalls(doc, p) == SelectSeq(doc.pages[p], IsLineCall)

\* C12: positions follow order: all pieces of a line are drawn at one y;
\* within a page the y of consecutive lines increases by exactly LineHeight;
\* the first line of a page opened by a page break follows the last line of
\* the page before, at the y the break resets the cursor to; line 1 is the
\* first line of page 1.  So the lines ordered by (page, y) are in the
\* order of the input.
C12_PositionsFollowOrder ==
  pdf # NULL =>
    LET doc == Val(pdf)
    IN /\ PageLineCalls(doc, 1) # <<>> /\ PageLineCalls(doc, 1)[1].line = 1
       /\ \A p \in 1..Len(doc.pages) :
            LET cs == PageLineCalls(doc, p)
            IN /\ \A k \in 1..(Len(cs) - 1) :
                    \/ cs[k + 1].line = cs[k].line /\ cs[k + 1].y = cs[k].y
                    \/ /\ cs[k + 1].line = cs[k].line + 1
                       /\ cs[k + 1].y = cs[k].y + LineHeight
               /\ p > 1 =>
                    LET prev == PageLineCalls(doc, p - 1)
                    IN /\ cs # <<>> /\ prev # <<>>
                       /\ cs[1].line = prev[Len(prev)].line + 1
                       /\ cs[1].y = NextPageY
                       /\ cs[1].y < prev[Len(prev)].y

\* C12 witness: two lines on the second page, the first at the reset y and
\* the second below it
C12_Witness ==
  /\ pdf # NULL /\ Len(Val(pdf).pages) >= 2
  /\ \E k \in 1..(Len(PageLineCalls(Val(pdf), 2)) - 1) :
        /\ PageLineCalls(Val(pdf), 2)[k].y = NextPageY
        /\ PageLineCalls(Val(pdf), 2)[k + 1].y = NextPageY + LineHeight

\* C13: generating from an empty report text yields a PDF of exactly one
\* page with the four header texts and no content (nothing drawn for a line
\* but empty text), and that document is available for export: the download
\* buttons are rendered.
C13_EmptyTextExportable ==
  (report = Some(<<>>) /\ pdf # NULL /\ PdfBuiltFromReport) =>
     LET doc == Val(pdf)
     IN /\ Len(doc.pages) = 1
        /\ Len(HeaderCalls(doc, 1)) = 4
        /\ \A k \in 1..Len(PageLineCalls(doc, 1)) : PageLineCalls(doc, 1)[k].text = <<>>
        /\ DownloadsShown

\* C14: the content of the DOCX is exactly one paragraph per line of the
\* report text, in input order, blank lines included: after the metadata
\* block there are as many paragraphs as lines, and the i-th of them is one
\* run with the text of the i-th line (its delimiters removed).
C14_ParagraphPerLine ==
  SavedDocx =>
    LET d == Val(saved).doc
    IN /\ Len(d.paragraphs) = 4 + Len(ReportLines)
       /\ \A i \in 1..Len(ReportLines) :
            /\ Len(DocxLineRuns(d, i)) = 1
            /\ DocxLineRuns(d, i)[1].text = StripStars(ReportLines[i])

\* C14 witness: a DOCX of three lines, the second blank, the first and the
\* third different
C14_Witness ==
  /\ SavedDocx /\ Len(ReportLines) = 3
  /\ ReportLines[2] = <<>> /\ ReportLines[1] # <<>> /\ ReportLines[3] # <<>>
  /\ StripStars(ReportLines[1]) # StripStars(ReportLines[3])
  /\ Len(Val(saved).doc.paragraphs) = 7

\* C15: in the DOCX the metadata block (title, company, report type,
\* generation date, in this order) precedes every content paragraph, and
\* every run of the block is bold: the first four paragraphs are the block,
\* and the paragraphs of the lines are the ones after them.
C15_MetadataBlockFirst ==
  SavedDocx =>
    LET ps == Val(saved).doc.paragraphs
    IN /\ Len(ps) = 4 + Len(ReportLines)
       /\ ps[1].children[1].text = <<"FINANCIAL REPORT">>
       /\ ps[2].children[1].text = <<"Company: ", company>>
       /\ ps[3].children[1].text = <<"Report Type: ", reportType>>
       /\ ps[4].children[1].text = <<"Generated on: ", LocaleDateString(today)>>
       /\ \A k \in 1..4 :
            /\ Len(ps[k].children) = 1
            /\ \A r \in 1..Len(ps[k].children) : ps[k].children[r].bold
       /\ \A k \in 5..Len(ps) : ps[k] = LineParagraph(ReportLines[k - 4])

\* C15 witness: a DOCX with the block and two content paragraphs, neither of
\* them bold
C15_Witness ==
  /\ SavedDocx /\ Len(Val(saved).doc.paragraphs) = 6
  /\ ~Val(saved).doc.paragraphs[5].children[1].bold
  /\ ~Val(saved).doc.paragraphs[6].children[1].bold
  /\ Val(saved).doc.paragraphs[4].children[1].bold

\* the company a PDF was generated for: the one its header names
PdfCompany(doc) == HeaderCalls(doc, 1)[2].text[2]

\* C16: the file a download saves is named after the company the saved
\* report was generated for: whenever a download saves a file while a PDF is
\* held, the company part of the file name is the company in the header of
\* that PDF, whatever edits of the company field came after the generation.
C16_FileNameCompany ==
  [][(saved' # saved /\ saved' # NULL /\ pdf # NULL)
       => Val(saved').name[1] = PdfCompany(Val(pdf))]_vars

\* the drawing calls of line i as runs: text and boldness
PdfRuns(doc, i) ==
  LET cs == LineCalls(doc, i)
  IN [k \in 1..Len(cs) |-> [text |-> cs[k].text, bold |-> cs[k].font = "bold"]]

\* a line that is wholly one delimited span, such as '*Executive Summary*'
IsSpanLine(line) ==
  Len(line) >= 3 /\ Head(line) = Star /\ line[Len(line)] = Star /\ NumStars(line) = 2

\* the text between the delimiters of such a line
SpanText(line) == SubSeq(line, 2, Len(line) - 1)

\* the lines of the drawing calls of page 1 are 1, 2, ..., n in order, each
\* line below the one before
LinesInOrder(doc, n) ==
  LET cs == PageLineCalls(doc, 1)
  IN /\ Len(doc.pages) = 1
     /\ {cs[k].line : k \in 1..Len(cs)} = 1..n
     /\ \A k \in 1..(Len(cs) - 1) :
          \/ cs[k + 1].line = cs[k].line /\ cs[k + 1].y = cs[k].y
          \/ cs[k + 1].line = cs[k].line + 1 /\ cs[k + 1].y > cs[k].y

\* C20 as claimed: a line that is wholly one delimited span is emitted as
\* exactly one run, bold, with the span's text; a line without a delimiter
\* is emitted as exactly one run, not bold; a text of two such lines yields
\* exactly two lines in order.
C20_OneRunPerLine ==
  pdf # NULL =>
    /\ \A i \in 1..Len(ReportLines) :
         LET line == ReportLines[i]
         IN /\ IsSpanLine(line) =>
                 PdfRuns(Val(pdf), i) = <<[text |-> SpanText(line), bold |-> TRUE]>>
            /\ ~HasStar(line) =>
                 PdfRuns(Val(pdf), i) = <<[text |-> line, bold |-> FALSE]>>
    /\ LinesInOrder(Val(pdf), Len(ReportLines))

\* C20 as amended: a line that is wholly one delimited span is emitted as
\* three runs: an empty run that is not bold, the span's text in bold, and
\* an empty run that is not bold, so its only run with text is the bold
\* one; a line without a delimiter is emitted as exactly one run, not bold;
\* the lines of the text are emitted in order.
C20_OneRunWithText ==
  pdf # NULL =>
    /\ \A i \in 1..Len(ReportLines) :
         LET line == ReportLines[i]
         IN /\ IsSpanLine(line) =>
                 /\ PdfRuns(Val(pdf), i) = << [text |-> <<>>, bold |-> FALSE],
                                              [text |-> SpanText(line), bold |-> TRUE],
                                              [text |-> <<>>, bold |-> FALSE] >>
                 /\ NonEmptyRuns(Val(pdf), i) = <<[text |-> SpanText(line), bold |-> TRUE]>>
            /\ ~HasStar(line) =>
                 PdfRuns(Val(pdf), i) = <<[text |-> line, bold |-> FALSE]>>
    /\ LinesInOrder(Val(pdf), Len(ReportLines))

\* C20 witness: a title line followed by a plain line
C20_Witness ==
  /\ pdf # NULL /\ Len(ReportLines) = 2
  /\ IsSpanLine(ReportLines[1])
  /\ ~HasStar(ReportLines[2]) /\ ReportLines[2] # <<>>
  /\ Len(PdfRuns(Val(pdf), 1)) = 3 /\ Len(PdfRuns(Val(pdf), 2)) = 1

\* the bottom limit of the lines of a page
BottomLimit == PageHeight - BottomMargin

\* C21 as claimed: a new page is opened before a line exactly when the
\* cursor (the y of the line before plus LineHeight) plus LineHeight is over
\* the bottom limit; hence every line placed at y has
\* y + LineHeight <= PageHeight - BottomMargin.
C21_PageBreakRule ==
  pdf # NULL =>
    LET doc == Val(pdf)
    IN \A p \in 1..Len(doc.pages) :
         LET cs == PageLineCalls(doc, p)
         IN /\ \A k \in 1..Len(cs) : cs[k].y + LineHeight <= BottomLimit
            /\ \A k \in 1..(Len(cs) - 1) :
                 cs[k + 1].line # cs[k].line =>
                    ~(cs[k].y + LineHeight + LineHeight > BottomLimit)
            /\ (p > 1 /\ cs # <<>>) =>
                 LET prev == PageLineCalls(doc, p - 1)
                 IN prev[Len(prev)].y + LineHeight + LineHeight > BottomLimit

\* C21 as amended: a new page is opened before a line exactly when the
\* cursor itself is over the bottom limit; hence every line placed at y has
\* y <= PageHeight - BottomMargin, and the last line of a page with a
\* successor has y + LineHeight over the limit.
C21_BreakWhenCursorOver ==
  pdf # NULL =>
    LET doc == Val(pdf)
    IN \A p \in 1..Len(doc.pages) :
         LET cs == PageLineCalls(doc, p)
         IN /\ \A k \in 1..Len(cs) : cs[k].y <= BottomLimit
            /\ \A k \in 1..(Len(cs) - 1) :
                 cs[k + 1].line # cs[k].line =>
                    ~(cs[k].y + LineHeight > BottomLimit)
            /\ (p > 1 /\ cs # <<>>) =>
                 LET prev == PageLineCalls(doc, p - 1)
                 IN prev[Len(prev)].y + LineHeight > BottomLimit

\* C21 witness: a page break, after a line drawn within one line height of
\* the bottom limit
C21_Witness ==
  /\ pdf # NULL /\ Len(Val(pdf).pages) >= 2
  /\ PageLineCalls(Val(pdf), 2) # <<>>
  /\ \E k \in 1..Len(PageLineCalls(Val(pdf), 1)) :
        /\ PageLineCalls(Val(pdf), 1)[k].y <= BottomLimit
        /\ PageLineCalls(Val(pdf), 1)[k].y + LineHeight > BottomLimit

\* the width of a drawn run, measured in the font it is drawn in
RunWidth(c) == GetTextWidth(c, c.text)

C23_EmptyRunKeepsCursor ==
  pdf # NULL =>
    \A i \in 1..Len(ReportLines) :
       LET cs == LineCalls(Val(pdf), i)
       IN \A k \in 1..(Len(cs) - 1) :
            cs[k].text = <<>> => cs[k + 1].x = cs[k].x

\* C24: no empty intermediate page: every page of a generated PDF except
\* possibly the last holds at least one line (a page is opened only just
\* before a line is drawn on it, so the last page holds one too when it was
\* opened by a page break).
C24_NoEmptyPage ==
  pdf # NULL =>
    LET doc == Val(pdf)
    IN /\ \A p \in 1..(Len(doc.pages) - 1) : PageLineCalls(doc, p) # <<>>
       /\ Len(doc.pages) > 1 => PageLineCalls(doc, Len(doc.pages)) # <<>>
       /\ \A p \in 2..Len(doc.pages) :
            /\ Len(doc.pages[p]) >= 2
            /\ IsHeaderCall(doc.pages[p][1])
            /\ IsLineCall(doc.pages[p][2])

\* C24 witness: a PDF of three pages whose last page holds a single line,
\* the one the page was opened for
C24_Witness ==
  /\ pdf # NULL /\ Len(Val(pdf).pages) = 3
  /\ Cardinality(LinesOnPage(Val(pdf), 3)) = 1
  /\ PageLineCalls(Val(pdf), 2) # <<>>

\* C25: every click on Generate leaves the loading flag false without
\* further user action: a click with the company name empty issues no
\* request and leaves loading false when its handler is done, and a call
\* whose request was issued leaves loading false when it completes.
C25_ClickLeavesLoadingFalse ==
  [][/\ (ClickGenerate /\ company = "") => loading' = FALSE
     /\ Len(calls') < Len(calls) => loading' = FALSE]_vars

\* C26: loading is true exactly when a generation request is outstanding.
C26_LoadingIffOutstanding == loading <=> (calls # <<>>)

\* C27: at most one generation request is outstanding at any time, so no
\* response arrives for a call older than another one.
C27_OneOutstanding == Len(calls) <= 1

\* C28: a failed generation leaves nothing to download: after a call whose
\* request is rejected, report and pdf are both null and loading is false.
C28_FailLeavesNothing ==
  [][Fail => (report' = NULL /\ pdf' = NULL /\ loading' = FALSE)]_vars

\* C29: the download buttons are shown exactly when a PDF is held, and then
\* the PDF is the one generatePDF builds from the report held: Download PDF
\* is never a silent no-op while it is visible.
C29_ButtonsIffPdf ==
  /\ DownloadsShown <=> (pdf # NULL)
  /\ (DownloadsShown /\ pdf # NULL) => PdfBuiltFromReport

\* C30: fetchFinancialData error handling: a click with the API key empty
\* sets only the error message and issues no request (data and loading
\* unchanged); a call whose request was issued, on any failure, sets an
\* error message and replaces data with the fallback data (before the
\* JSON bodies are awaited a call can only end by a failure, after it also
\* by setData with no error); and loading is false whenever no call is
\* suspended.
C30_FetchErrorHandling ==
  [][/\ (ClickFetch /\ fin.apiKey = "") =>
          /\ fin'.error = Some(<<"Please enter your Finnhub API key">>)
          /\ fin'.data = fin.data /\ fin'.loading = fin.loading
          /\ fin'.pc = "idle"
     /\ (fin.pc # "idle" /\ fin'.pc = "idle") =>
          \/ fin'.error # NULL /\ fin'.data = Some(GetFallbackData)
          \/ fin.pc = "json" /\ fin'.error = NULL /\ fin'.data # NULL
     /\ fin'.pc = "idle" => ~fin'.loading]_vars

\* C30 witness: a call that failed after the first response: the error
\* message of the second stage is shown with the fallback data, loading off
C30_Witness ==
  /\ fin.pc = "idle" /\ ~fin.loading
  /\ fin.error = Some(<<"Failed to fetch some financial data">>)
  /\ fin.data = Some(GetFallbackData)

====
